---- MODULE Spec2Model ----
(***************************************************************************)
(* Order submission pipeline of the three scripts                           *)
(*   src/unnamed/part_000   direct strategy: EOA signs an EIP-2612 permit   *)
(*                          and sends multicall([selfPermit, createOrder])  *)
(*   src/unnamed/part_001   sponsored strategy: a smart account sends the   *)
(*                          user operation [approve, createOrder]           *)
(*   src/smart_account.ts   sponsored strategy with the SENT_STOCKS switch  *)
(* A run of a script is a sequential process; every await is a step.        *)
(***************************************************************************)
EXTENDS Integers, Sequences, FiniteSets, TLC

(***************************************************************************)
(* Token amounts.  A JavaScript bigint is modelled exactly as two limbs,    *)
(* value = hi * LimbBase + lo, so that values around 2^53 can be written;   *)
(* a JavaScript number holding an integer is modelled by the integer it     *)
(* holds, in the same two-limb form.                                        *)
(***************************************************************************)
LimbBase == 2^27

Big(h, l) == [hi |-> h, lo |-> l]

BigOf(n) == Big(n \div LimbBase, n % LimbBase)

BigAdd(a, b) ==
  LET s == a.lo + b.lo
  IN  Big(a.hi + b.hi + (s \div LimbBase), s % LimbBase)

BigSub(a, b) ==
  IF a.lo >= b.lo THEN Big(a.hi - b.hi, a.lo - b.lo)
                  ELSE Big(a.hi - b.hi - 1, a.lo + LimbBase - b.lo)

BigLe(a, b) == a.hi < b.hi \/ (a.hi = b.hi /\ a.lo <= b.lo)

\* 2^53 = 2^26 * 2^27: the first integer whose successor a double cannot hold.
Two53 == Big(2^26, 0)

\* The spacing of doubles at the magnitude of a (1 below 2^53, then doubling).
Ulp(a) ==
  IF a.hi < 2^26 THEN 1
  ELSE IF a.hi < 2^27 THEN 2
  ELSE IF a.hi < 2^28 THEN 4
  ELSE IF a.hi < 2^29 THEN 8
  ELSE IF a.hi < 2^30 THEN 16
  ELSE 32

\* Number(x) of a bigint x: the nearest double, ties to the even mantissa.
ToNumber(a) ==
  LET u    == Ulp(a)
      rem  == a.lo % u
      down == Big(a.hi, a.lo - rem)
      up   == BigAdd(down, Big(0, u))
  IN  IF rem = 0 THEN a
      ELSE IF 2 * rem < u THEN down
      ELSE IF 2 * rem > u THEN up
      ELSE IF (down.lo \div u) % 2 = 0 THEN down
      ELSE up

\* BigInt(n) of a number n holding an integer: the integer itself, exactly.
BigIntOfNumber(n) == n

\* a * b mod m without an intermediate product (a < m).
RECURSIVE MulMod(_, _, _)
MulMod(a, b, m) ==
  IF b = 0 THEN 0
  ELSE LET h == MulMod(a, b \div 2, m)
       IN  (2 * h + (IF b % 2 = 1 THEN a ELSE 0)) % m

\* n % m of a number n holding an integer and a positive integer m.
NumberMod(n, m) == (MulMod(LimbBase % m, n.hi % m, m) + n.lo) % m

(***************************************************************************)
(* configureOrder's paymentTokenQuantity and main's totalSpendAmount.       *)
(***************************************************************************)
\* paymentTokenQuantity: Number(orderAmount)
PaymentTokenQuantity(orderAmount) == ToNumber(orderAmount)

\* (variant) the total without the fee
TotalSpendWithoutFee(paymentTokenQuantity, fees) == BigIntOfNumber(paymentTokenQuantity)

\* totalSpendAmount = BigInt(orderParams.paymentTokenQuantity) + fees
TotalSpendAmount(paymentTokenQuantity, fees) ==
  BigAdd(BigIntOfNumber(paymentTokenQuantity), fees)

(***************************************************************************)
(* Names.                                                                   *)
(***************************************************************************)
Scripts == {"direct", "sponsored", "smart"}

\* RunIds: the processes a specification may start; `active` says which run.
RunIds == {1, 2}

None == <<>>
Some(x) == <<x>>

\* process.env names read by the scripts
EnvVars ==
  {"PRIVATE_KEY_EOA", "PRIVATE_KEY", "RPC_URL", "ASSETTOKEN", "PAYMENTTOKEN",
   "DINARI_API_KEY", "PIMLICO_API_KEY"}

\* (variant) a start that insists on the key and the node endpoint only
RequiredKeyAndEndpoint(s) ==
  IF s = "direct" THEN {"PRIVATE_KEY_EOA", "RPC_URL"} ELSE {"PRIVATE_KEY", "RPC_URL"}

\* the values main() refuses to start without
RequiredEnv(s) ==
  CASE s = "direct" ->
         {"PRIVATE_KEY_EOA", "RPC_URL", "ASSETTOKEN", "PAYMENTTOKEN", "DINARI_API_KEY"}
    [] s = "sponsored" ->
         {"PRIVATE_KEY", "RPC_URL", "ASSETTOKEN", "PAYMENTTOKEN", "DINARI_API_KEY",
          "PIMLICO_API_KEY"}
    [] OTHER ->
         {"PRIVATE_KEY", "RPC_URL", "PAYMENTTOKEN", "DINARI_API_KEY", "PIMLICO_API_KEY"}

\* const SENT_STOCKS = true
SENT_STOCKS == TRUE

\* (variant) the scripts set to sell
SellOrderSet == TRUE

\* const sellOrder = false
SellOrderDefault == FALSE

\* BigInt(1_000_000) in part_000 and part_001; BigInt(100 * 10 ** 6) in smart_account.ts
OrderAmountOf(s) == IF s = "smart" THEN BigOf(100 * 10^6) ELSE BigOf(1000000)

\* sendToken: BigInt(0.1 * 10 ** 18), the double 0.1 * 10^18 being 10^17 exactly
SendTokenAmount == Big(745058059, 92930048)

\* the account whose funds a script spends, and who calls the settlement contract
OwnerOf(s) == IF s = "direct" THEN "eoa" ELSE "account"

\* permit deadline: blockTime + 60 * 5
PermitLifetime == 60 * 5

\* waitForUserOperationReceipt({ hash, timeout: 60000 })
ReceiptTimeoutMs == 60000

\* The pipeline's stages (spec section 2), by the script that runs them.
StageOrder(s) ==
  IF s = "direct"
  THEN <<"OrderIntentBuilder", "FeeQuoteClient", "PermitAuthorizer",
         "ExecutionBundler", "TransactionDispatcher", "ReceiptParser">>
  ELSE <<"OrderIntentBuilder", "FeeQuoteClient",
         "ExecutionBundler", "TransactionDispatcher", "ReceiptParser">>

(***************************************************************************)
(* Bounds of the model.                                                     *)
(***************************************************************************)
\* other permits of the same owner that may be consumed while a run is going
MaxNonce == 2
\* the chain's clock runs from StartTime to MaxTime in steps of BlockSeconds
MaxTime == 1600
BlockSeconds == 400
StartTime == 1000
\* how long the pricing service's quote stays valid
QuoteLifetime == 350
\* the receipt poll of the sponsored path, in ms per poll
PollMs == 20000
\* re-broadcasts of an already executed permit call
MaxReplays == 1
\* orderDecimalReduction and decimals() values the contracts may return
MaxReduction == 3
MaxDecimals == 4
\* the low limbs tried around each magnitude of the amount arithmetic
MaxLow == 4

\* the fees the pricing service may quote
Fees == {BigOf(2500), BigOf(0), Two53}

(***************************************************************************)
(* State.                                                                   *)
(***************************************************************************)
VARIABLES
  active,   \* the runs this behaviour starts
  run,      \* per run: the locals of main() and where it is
  chain,    \* nonce of the signer, allowances, orders, block time
  txs,      \* transactions and user operations sent to the chain
  arith     \* inputs and results of the amount arithmetic taken alone

vars == <<active, run, chain, txs, arith>>

NewRun(s, e, sell, amount) ==
  [script |-> s, env |-> e, pc |-> "start",
   sellOrder |-> sell, orderAmount |-> amount,
   allowedDecimalReduction |-> None,
   orderParams |-> None, feeQuoteResponse |-> None, fees |-> None,
   totalSpendAmount |-> None,
   nonce |-> None, nonceReadAt |-> None, blockTime |-> None, deadline |-> None,
   permitDomain |-> None, permitMessage |-> None,
   permitSignature |-> None, selfPermitData |-> None,
   batch |-> None, handle |-> 0, elapsed |-> 0,
   receipt |-> None, txReceipt |-> None,
   orderEvent |-> None, statusQuery |-> None, orderStatus |-> None,
   error |-> "none", errorArg |-> 0, exitCode |-> -1,
   stages |-> <<>>, calls |-> <<>>]

Tokens == {"paymentToken", "apple"}
Owners == {"eoa", "account"}
Spenders == {"processor", "apple"}

\* the payment token's EIP-712 domain, as the token itself computes it
TokenDomain(version) ==
  [name |-> "USD Coin", version |-> version, chainId |-> 11155111,
   verifyingContract |-> "paymentToken"]

NewChain(version, reduction, decimals) ==
  [nonce |-> 0, time |-> StartTime, tokenVersion |-> version, replays |-> 0,
   permits |-> <<>>,
   orderDecimalReduction |-> reduction, assetDecimals |-> decimals,
   allowance |-> [k \in Tokens \X Owners \X Spenders |-> BigOf(0)],
   orders |-> {}]

NoArith == [phase |-> "off"]

(***************************************************************************)
(* How main() ends.                                                         *)
(***************************************************************************)
\* main().catch: console.error(error); process.exit(1)
Failed(rec, e) == [rec EXCEPT !.pc = "failed", !.error = e, !.exitCode = 1]

\* the try/catch around the submission in the sponsored scripts:
\* console.error("Error:", error), main() resolves, process.exit(0)
Caught(rec, e) == [rec EXCEPT !.pc = "done", !.error = e, !.exitCode = 0]

\* main().then(() => process.exit(0))
Finished(rec) == [rec EXCEPT !.pc = "done", !.exitCode = 0]

Call(rec, name) == [rec EXCEPT !.calls = Append(@, name)]
Stage(rec, name) == [rec EXCEPT !.stages = Append(@, name)]

(***************************************************************************)
(* Signatures, abstractly: a signature binds its signer to what was signed, *)
(* and recovery returns the signer only for the digest that was signed.     *)
(***************************************************************************)
\* signer._signTypedData(permitDomain, permitTypes, permitMessage)
SignTypedData(signer, domain, message) ==
  <<[domain |-> domain, message |-> message], signer, 27>>

\* ethers.utils.splitSignature(permitSignatureBytes)
SplitSignature(bytes) == [r |-> bytes[1], s |-> bytes[2], v |-> bytes[3]]

\* ecrecover of the verifier
Recover(digest, v, r, s) == IF r = digest /\ v \in {27, 28} THEN s ELSE "nobody"

\* the pricing service's signature over the order and its quote
ServiceSign(order, quote) == [order |-> order, quote |-> quote, by |-> "dinari"]

(***************************************************************************)
(* Call payloads.                                                           *)
(***************************************************************************)
\* (variant) the selfPermit call data with the nonce where the deadline belongs
SelfPermitCallWithNonce(paymentTokenAddress, message, sig) ==
  [to |-> "processor", fn |-> "selfPermit",
   args |-> [token |-> paymentTokenAddress, owner |-> message.owner,
             value |-> message.value, deadline |-> message.nonce,
             v |-> sig.v, r |-> sig.r, s |-> sig.s]]

\* orderProcessor.interface.encodeFunctionData("selfPermit", [...])
SelfPermitCall(paymentTokenAddress, message, sig) ==
  [to |-> "processor", fn |-> "selfPermit",
   args |-> [token |-> paymentTokenAddress, owner |-> message.owner,
             value |-> message.value, deadline |-> message.deadline,
             v |-> sig.v, r |-> sig.r, s |-> sig.s]]

\* encodeFunctionData({ functionName: "approve", args: [spender, amount] })
ApproveCall(token, spender, amount) ==
  [to |-> token, fn |-> "approve", args |-> [spender |-> spender, amount |-> amount]]

\* encodeFunctionData({ functionName: "transfer", args: [to, amount] })
TransferCall(token, recipient, amount) ==
  [to |-> token, fn |-> "transfer", args |-> [recipient |-> recipient, amount |-> amount]]

\* (variant) createOrder call data whose order asks for quantity plus fee
CreateOrderCallWithTotal(orderParams, feeQuoteResponse) ==
  [to |-> "processor", fn |-> "createOrder",
   args |-> [order |-> [orderParams EXCEPT
                          !.paymentTokenQuantity =
                             BigAdd(@, feeQuoteResponse.fee_quote.fee)],
             feeQuote |-> feeQuoteResponse.fee_quote,
             signature |-> feeQuoteResponse.fee_quote_signature]]

\* encodeFunctionData("createOrder", [order tuple, fee quote tuple, signature])
CreateOrderCall(orderParams, feeQuoteResponse) ==
  [to |-> "processor", fn |-> "createOrder",
   args |-> [order |-> [requestTimestamp |-> orderParams.requestTimestamp,
                        recipient |-> orderParams.recipient,
                        assetToken |-> orderParams.assetToken,
                        paymentToken |-> orderParams.paymentToken,
                        sell |-> orderParams.sell,
                        orderType |-> orderParams.orderType,
                        assetTokenQuantity |-> orderParams.assetTokenQuantity,
                        paymentTokenQuantity |-> orderParams.paymentTokenQuantity,
                        price |-> orderParams.price,
                        tif |-> orderParams.tif],
             feeQuote |-> [orderId |-> feeQuoteResponse.fee_quote.orderId,
                           requester |-> feeQuoteResponse.fee_quote.requester,
                           fee |-> feeQuoteResponse.fee_quote.fee,
                           timestamp |-> feeQuoteResponse.fee_quote.timestamp,
                           deadline |-> feeQuoteResponse.fee_quote.deadline],
             signature |-> feeQuoteResponse.fee_quote_signature]]

\* part_000: [selfPermitData, requestOrderData]
DirectBatch(selfPermitData, orderParams, feeQuoteResponse) ==
  <<selfPermitData, CreateOrderCall(orderParams, feeQuoteResponse)>>

\* part_001 main and smart_account.ts createOrder: [approve, createOrder]
SponsoredBatch(orderParams, feeQuoteResponse, totalSpendAmount) ==
  <<ApproveCall("paymentToken", "processor", totalSpendAmount),
    CreateOrderCall(orderParams, feeQuoteResponse)>>

\* smart_account.ts sendToken(smartAccountClient): asset = APPLE, to = ISAAC_MAIN_WALLET
SendTokenBatch ==
  <<ApproveCall("apple", "apple", SendTokenAmount),
    TransferCall("apple", "isaac", SendTokenAmount)>>

\* what smart_account.ts puts in its one submission
SmartBatch(orderParams, feeQuoteResponse, totalSpendAmount) ==
  IF SENT_STOCKS THEN SendTokenBatch
  ELSE SponsoredBatch(orderParams, feeQuoteResponse, totalSpendAmount)

\* (variant) every call of the batch sent as a transaction of its own
SeparateSubmissions(batch) == [k \in 1..Len(batch) |-> <<batch[k]>>]

\* orderProcessor.multicall([...]) and sendTransactions({ transactions }):
\* the whole batch travels as one transaction / one user operation
OneSubmission(batch) == <<batch>>

NewTx(r, kind, sender, calls) ==
  [by |-> r, kind |-> kind, sender |-> sender, calls |-> calls,
   sentAt |-> chain.time, status |-> "pending", logs |-> <<>>]

(***************************************************************************)
(* The chain: what the contracts the scripts call do with a call.  A state  *)
(* st is the chain record; a result adds ok and the logs emitted.           *)
(***************************************************************************)
\* what the environment decides when a transaction executes: whether the
\* balance and the other checks of the contracts pass, and the topics under
\* which the token and the processor log their events
ExecEnvs ==
  [ok : BOOLEAN, tokenTopic : {"Approval", "OrderCreated"},
   procTopic : {"OrderCreated", "Other"}]

AllowanceKey(token, owner, spender) == <<token, owner, spender>>

\* (variant) a verifier that checks the signature against the nonce the signer
\* wrote instead of the owner's counter
PermitIgnoringCounter(st, c, env) ==
  LET a      == c.args
      digest == [domain |-> TokenDomain(st.tokenVersion),
                 message |-> [owner |-> a.owner, spender |-> "processor",
                              value |-> a.value, nonce |-> a.r.message.nonce,
                              deadline |-> a.deadline]]
      key    == AllowanceKey(a.token, a.owner, "processor")
  IN  IF key \in DOMAIN st.allowance /\ st.time <= a.deadline
         /\ Recover(digest, a.v, a.r, a.s) = a.owner
      THEN [ok |-> TRUE,
            st |-> [st EXCEPT !.nonce = @ + 1, !.allowance[key] = a.value,
                              !.permits = Append(@, [nonce |-> a.r.message.nonce,
                                                     counter |-> st.nonce])],
            logs |-> <<[address |-> a.token, topic |-> env.tokenTopic,
                        args |-> <<0, a.owner>>]>>]
      ELSE [ok |-> FALSE, st |-> st, logs |-> <<>>]

\* ERC-2612 permit, reached through selfPermit(token, owner, value, deadline, v, r, s)
Permit(st, c, env) ==
  LET a      == c.args
      digest == [domain |-> TokenDomain(st.tokenVersion),
                 message |-> [owner |-> a.owner, spender |-> "processor",
                              value |-> a.value, nonce |-> st.nonce,
                              deadline |-> a.deadline]]
      key    == AllowanceKey(a.token, a.owner, "processor")
      ok     == /\ key \in DOMAIN st.allowance
                /\ st.time <= a.deadline
                /\ Recover(digest, a.v, a.r, a.s) = a.owner
  IN  IF ok
      THEN [ok |-> TRUE,
            st |-> [st EXCEPT !.nonce = @ + 1, !.allowance[key] = a.value,
                              !.permits = Append(@, [nonce |-> a.r.message.nonce,
                                                     counter |-> st.nonce])],
            logs |-> <<[address |-> a.token, topic |-> env.tokenTopic,
                        args |-> <<0, a.owner>>]>>]
      ELSE [ok |-> FALSE, st |-> st, logs |-> <<>>]

\* ERC-20 approve(spender, amount) called by sender
Approve(st, c, sender, env) ==
  LET key == AllowanceKey(c.to, sender, c.args.spender)
  IN  IF key \in DOMAIN st.allowance
      THEN [ok |-> TRUE,
            st |-> [st EXCEPT !.allowance[key] = c.args.amount],
            logs |-> <<[address |-> c.to, topic |-> env.tokenTopic,
                        args |-> <<0, sender>>]>>]
      ELSE [ok |-> FALSE, st |-> st, logs |-> <<>>]

\* ERC-20 transfer(recipient, amount): passes when the balance covers it
Transfer(st, c, sender, env) ==
  IF env.ok
  THEN [ok |-> TRUE, st |-> st,
        logs |-> <<[address |-> c.to, topic |-> "Transfer", args |-> <<0, sender>>]>>]
  ELSE [ok |-> FALSE, st |-> st, logs |-> <<>>]

\* createOrder(order, feeQuote, feeQuoteSignature): takes quantity + fee from the
\* caller's allowance and emits the order-created event (orderId, orderAccount)
CreateOrder(st, c, sender, id, env) ==
  LET a     == c.args
      total == BigAdd(a.order.paymentTokenQuantity, a.feeQuote.fee)
      key   == AllowanceKey(a.order.paymentToken, sender, "processor")
      ok    == /\ key \in DOMAIN st.allowance
               /\ a.signature = ServiceSign(a.order, a.feeQuote)
               /\ st.time <= a.feeQuote.deadline
               /\ BigLe(total, st.allowance[key])
               /\ env.ok
  IN  IF ok
      THEN [ok |-> TRUE,
            st |-> [st EXCEPT !.allowance[key] = BigSub(@, total),
                              !.orders = @ \cup {[id |-> id, account |-> sender]}],
            logs |-> <<[address |-> "processor", topic |-> env.procTopic,
                        args |-> <<id, sender>>]>>]
      ELSE [ok |-> FALSE, st |-> st, logs |-> <<>>]

ApplyCall(st, c, sender, id, env) ==
  CASE c.fn = "selfPermit"  -> Permit(st, c, env)
    [] c.fn = "approve"     -> Approve(st, c, sender, env)
    [] c.fn = "transfer"    -> Transfer(st, c, sender, env)
    [] c.fn = "createOrder" -> CreateOrder(st, c, sender, id, env)

\* the calls of one transaction, in order; the first failure fails them all
RECURSIVE RunCalls(_, _, _, _, _)
RunCalls(st, calls, sender, id, env) ==
  IF calls = <<>> THEN [ok |-> TRUE, st |-> st, logs |-> <<>>]
  ELSE LET first == ApplyCall(st, Head(calls), sender, id, env)
       IN  IF ~first.ok THEN [ok |-> FALSE, st |-> st, logs |-> <<>>]
           ELSE LET rest == RunCalls(first.st, Tail(calls), sender, id, env)
                IN  [ok |-> rest.ok, st |-> rest.st, logs |-> first.logs \o rest.logs]

\* multicall / executeBatch: a transaction's calls take effect together or not at all
ExecuteTx(i) ==
  /\ i \in 1..Len(txs)
  /\ txs[i].status = "pending"
  /\ \E env \in ExecEnvs :
       LET tx   == txs[i]
           res  == RunCalls(chain, tx.calls, tx.sender, i, env)
           tail == IF tx.kind = "userop"
                   THEN <<[address |-> "entryPoint", topic |-> "UserOperationEvent",
                           args |-> <<0, tx.sender>>]>>
                   ELSE <<>>
       IN  /\ chain' = IF res.ok THEN res.st ELSE chain
           /\ txs' = [txs EXCEPT ![i].status = IF res.ok THEN "success" ELSE "reverted",
                                 ![i].logs = (IF res.ok THEN res.logs ELSE <<>>) \o tail]
  /\ UNCHANGED <<active, run, arith>>

\* a block passes
Tick ==
  /\ chain.time + BlockSeconds <= MaxTime
  /\ chain' = [chain EXCEPT !.time = @ + BlockSeconds]
  /\ UNCHANGED <<active, run, txs, arith>>

\* another permit of the same owner is consumed
AdvanceNonce ==
  /\ chain.nonce < MaxNonce
  /\ chain' = [chain EXCEPT !.nonce = @ + 1,
                            !.permits = Append(@, [nonce |-> chain.nonce,
                                                   counter |-> chain.nonce])]
  /\ UNCHANGED <<active, run, txs, arith>>

\* anyone re-broadcasts a permit call that has already been executed
Replay(i) ==
  /\ i \in 1..Len(txs)
  /\ txs[i].status = "success"
  /\ txs[i].calls # <<>>
  /\ txs[i].calls[1].fn = "selfPermit"
  /\ chain.replays < MaxReplays
  /\ chain' = [chain EXCEPT !.replays = @ + 1]
  /\ txs' = Append(txs, NewTx(0, "tx", "replayer", <<txs[i].calls[1]>>))
  /\ UNCHANGED <<active, run, arith>>

(***************************************************************************)
(* The scripts.  run[r] holds the locals of run r; every action is one await *)
(* of main() together with the synchronous code that follows it.            *)
(***************************************************************************)
At(r, where) == r \in active /\ run[r].pc = where

Set(r, rec) == run' = [run EXCEPT ![r] = rec]

\* the environment checks at the top of main()
CheckConfig(r) ==
  /\ At(r, "start")
  /\ Set(r, IF RequiredEnv(run[r].script) \subseteq run[r].env
            THEN [run[r] EXCEPT !.pc = "setup"]
            ELSE Failed(run[r], "config"))
  /\ UNCHANGED <<active, chain, txs, arith>>

\* provider, signer, chain id, clients, smart account, contracts
Setup(r) ==
  /\ At(r, "setup")
  /\ \E ok \in BOOLEAN :
       LET called == IF run[r].script = "direct"
                     THEN Call(run[r], "getNetwork")
                     ELSE Call(Call(run[r], "getNetwork"), "setupSmartAccount")
       IN  Set(r, IF ok THEN [called EXCEPT !.pc = "configureOrder"]
                        ELSE Failed(called, "NetworkError"))
  /\ UNCHANGED <<active, chain, txs, arith>>

\* the object configureOrder returns
OrderParams(rec, now) ==
  [requestTimestamp |-> now,
   recipient |-> OwnerOf(rec.script),
   assetToken |-> "assetToken",
   paymentToken |-> "paymentToken",
   sell |-> rec.sellOrder,
   orderType |-> 0,
   assetTokenQuantity |-> 0,
   paymentTokenQuantity |-> PaymentTokenQuantity(rec.orderAmount),
   price |-> 0,
   tif |-> 1]

\* configureOrder up to its first await: a sell order goes to the precision check
ConfigureOrder(r) ==
  /\ At(r, "configureOrder")
  /\ LET rec == Stage(run[r], "OrderIntentBuilder")
     IN  Set(r, IF rec.sellOrder
                THEN [rec EXCEPT !.pc = "validateSell"]
                ELSE [rec EXCEPT !.pc = "getFeeQuote",
                                 !.orderParams = Some(OrderParams(rec, chain.time))])
  /\ UNCHANGED <<active, chain, txs, arith>>

\* 10 ** allowedDecimalReduction
AllowablePrecisionReduction(allowedDecimalReduction) == 10 ^ allowedDecimalReduction

\* (variant) the precision test with its comparison inverted
PrecisionExceededInverted(orderAmount, allowedDecimalReduction) ==
  NumberMod(ToNumber(orderAmount), 10 ^ allowedDecimalReduction) = 0

\* Number(orderAmount) % allowablePrecisionReduction != 0
PrecisionExceeded(orderAmount, allowedDecimalReduction) ==
  NumberMod(ToNumber(orderAmount),
            AllowablePrecisionReduction(allowedDecimalReduction)) # 0

\* validateSellOrderPrecision: await orderDecimalReduction(asset), then the check
ValidateSellOrderPrecision(r) ==
  /\ At(r, "validateSell")
  /\ LET red == chain.orderDecimalReduction
         rec == [Call(run[r], "orderDecimalReduction")
                    EXCEPT !.allowedDecimalReduction = Some(red)]
     IN  Set(r, IF PrecisionExceeded(rec.orderAmount, red)
                THEN [rec EXCEPT !.pc = "validateDecimals"]
                ELSE [rec EXCEPT !.pc = "getFeeQuote",
                                 !.orderParams = Some(OrderParams(rec, chain.time))])
  /\ UNCHANGED <<active, chain, txs, arith>>

\* ... await assetToken.decimals(), then throw naming the maximum decimals
ValidateThrow(r) ==
  /\ At(r, "validateDecimals")
  /\ Set(r, [Failed(Call(run[r], "decimals"), "PrecisionError")
                EXCEPT !.errorArg = chain.assetDecimals
                                      - run[r].allowedDecimalReduction[1]])
  /\ UNCHANGED <<active, chain, txs, arith>>

\* (variant) the direct script going straight from the quote to the submission
AfterQuoteWithoutPermit(s) == "send"

\* where main() goes once it holds the quote and the total
AfterQuote(s) == IF s = "direct" THEN "readNonce" ELSE "send"

\* what the pricing service answers
QuoteResponse(rec, fee, now) ==
  LET q == [orderId |-> rec.orderParams[1].requestTimestamp, requester |-> rec.orderParams[1].recipient,
            fee |-> fee, timestamp |-> now, deadline |-> now + QuoteLifetime]
  IN  [fee_quote |-> q, fee_quote_signature |-> ServiceSign(rec.orderParams[1], q)]

\* how often a call occurs among those a run has made
Count(calls, name) == Cardinality({k \in 1..Len(calls) : calls[k] = name})

\* (variant) a failed quote request sent once more before giving up
RetryQuoteOnce(rec, e) ==
  IF Count(rec.calls, "feeQuote") < 2 THEN [rec EXCEPT !.pc = "getFeeQuote"]
                                      ELSE Failed(rec, e)

\* dinariClient.post rejects, or BigInt(...fee_quote.fee) throws: nothing
\* catches it before main().catch
OnQuoteFailure(rec, e) == Failed(rec, e)

\* getFeeQuote, then totalSpendAmount
GetFeeQuote(r) ==
  /\ At(r, "getFeeQuote")
  /\ LET rec == Call(Stage(run[r], "FeeQuoteClient"), "feeQuote")
     IN  \/ \E e \in {"QuoteServiceError", "MalformedQuote"} :
              Set(r, OnQuoteFailure(rec, e))
         \/ \E fee \in Fees :
              Set(r, [rec EXCEPT
                !.pc = AfterQuote(rec.script),
                !.feeQuoteResponse = Some(QuoteResponse(rec, fee, chain.time)),
                !.fees = Some(fee),
                !.totalSpendAmount =
                   Some(TotalSpendAmount(rec.orderParams[1].paymentTokenQuantity, fee))])
  /\ UNCHANGED <<active, chain, txs, arith>>

\* (variant) a nonce the run derives from its own position instead of the counter
PermitNoncePerRun(counter, r) == counter + r - 1

\* configurePermit: const nonce = await paymentToken.nonces(signer.address)
PermitNonce(counter, r) == counter

ReadNonce(r) ==
  /\ At(r, "readNonce")
  /\ \E ok \in BOOLEAN :
       LET rec == Call(Stage(run[r], "PermitAuthorizer"), "nonces")
       IN  Set(r, IF ok THEN [rec EXCEPT !.pc = "readBlock",
                                         !.nonce = Some(PermitNonce(chain.nonce, r)),
                                         !.nonceReadAt = Some(chain.nonce)]
                        ELSE Failed(rec, "NetworkError"))
  /\ UNCHANGED <<active, chain, txs, arith>>

\* (variant) a permit that lapses with the block it was built on
DeadlineAtBlockTime(blockTime) == blockTime

\* const deadline = blockTime + 60 * 5
PermitDeadline(blockTime) == blockTime + PermitLifetime

\* (await provider.getBlock(blockNumber))?.timestamp: nothing when there is no block
BlockTimes == {Some(chain.time), Some(0), None}

\* ... getBlockNumber, getBlock, the blockTime check, the deadline
ReadBlock(r) ==
  /\ At(r, "readBlock")
  /\ \E blockTime \in BlockTimes :
       LET rec == [Call(Call(run[r], "getBlockNumber"), "getBlock")
                     EXCEPT !.blockTime = blockTime]
       IN  Set(r, IF blockTime = None \/ blockTime = Some(0)
                  THEN Failed(rec, "no block time")
                  ELSE [rec EXCEPT !.pc = "readDomain",
                                   !.deadline = Some(PermitDeadline(blockTime[1]))])
  /\ UNCHANGED <<active, chain, txs, arith>>

\* (variant) a probe that hands back nothing when the call fails
VersionUndefinedOnFailure(callOk, version) == IF callOk THEN version ELSE "undefined"

\* getContractVersion: the contract's version(), "1" when the call fails
GetContractVersion(callOk, version) == IF callOk THEN version ELSE "1"

\* ... name(), version(), chain id; then permitDomain and permitMessage;
\* name() is awaited bare, version() inside getContractVersion's try
ReadDomain(r) ==
  /\ At(r, "readDomain")
  /\ \/ Set(r, Failed(Call(run[r], "name"), "NetworkError"))
     \/ \E versionOk \in BOOLEAN :
       LET rec == Call(Call(Call(run[r], "name"),
                            IF versionOk THEN "version" ELSE "version:failed"),
                       "getNetwork")
       IN  Set(r, [rec EXCEPT
             !.pc = "sign",
             !.permitDomain =
                Some([name |-> "USD Coin",
                      version |-> GetContractVersion(versionOk, chain.tokenVersion),
                      chainId |-> 11155111,
                      verifyingContract |-> "paymentToken"]),
             !.permitMessage =
                Some([owner |-> "eoa", spender |-> "processor",
                      value |-> rec.totalSpendAmount[1],
                      nonce |-> rec.nonce[1],
                      deadline |-> rec.deadline[1]])])
  /\ UNCHANGED <<active, chain, txs, arith>>

\* _signTypedData, splitSignature, the selfPermit call data
SignPermit(r) ==
  /\ At(r, "sign")
  /\ LET rec == run[r]
         sig == SplitSignature(
                  SignTypedData("eoa", rec.permitDomain[1], rec.permitMessage[1]))
     IN  Set(r, [rec EXCEPT
           !.pc = "submit",
           !.permitSignature = Some(sig),
           !.selfPermitData =
              Some(SelfPermitCall("paymentToken", rec.permitMessage[1], sig))])
  /\ UNCHANGED <<active, chain, txs, arith>>

\* (variant) a dispatch that holds the batch back once the quote has run out
SubmittedUnlessExpired(r, kind, sender, batch) ==
  IF chain.time > run[r].feeQuoteResponse[1].fee_quote.deadline
  THEN txs
  ELSE txs \o <<[by |-> r, kind |-> kind, sender |-> sender, calls |-> batch,
                 sentAt |-> chain.time, status |-> "pending", logs |-> <<>>]>>

\* the transactions a submission puts on the chain, after those already there
Submitted(r, kind, sender, batch) ==
  LET subs == OneSubmission(batch)
  IN  txs \o [k \in 1..Len(subs) |-> NewTx(r, kind, sender, subs[k])]

\* submitOrder up to the broadcast: encode createOrder, multicall([...])
SubmitOrder(r) ==
  /\ At(r, "submit")
  /\ LET rec0  == Stage(run[r], "ExecutionBundler")
         batch == DirectBatch(rec0.selfPermitData[1], rec0.orderParams[1],
                              rec0.feeQuoteResponse[1])
         rec   == Call(Stage([rec0 EXCEPT !.batch = Some(batch)],
                             "TransactionDispatcher"), "multicall")
     IN  \/ /\ Set(r, Failed(rec, "SendError"))
            /\ UNCHANGED txs
         \/ /\ txs' = Submitted(r, "tx", "eoa", batch)
            /\ Set(r, [rec EXCEPT !.pc = "wait", !.handle = Len(txs')])
  /\ UNCHANGED <<active, chain, arith>>

\* tx.wait(): returns the receipt once the transaction is mined, throws if it reverted
WaitDirect(r) ==
  /\ At(r, "wait")
  /\ txs[run[r].handle].status # "pending"
  /\ LET tx  == txs[run[r].handle]
         rec == Call(run[r], "wait")
     IN  Set(r, IF tx.status = "success"
                THEN [rec EXCEPT !.pc = "parse",
                                 !.receipt = Some([transactionHash |-> rec.handle,
                                                   status |-> 1, logs |-> tx.logs])]
                ELSE Failed(rec, "ChainRevertError"))
  /\ UNCHANGED <<active, chain, txs, arith>>

\* part_000: logs whose topics[0] is the OrderCreated topic
DirectMatches(logs) == SelectSeq(logs, LAMBDA l : l.topic = "OrderCreated")

\* part_001 and smart_account.ts: ... and whose address is the order processor
SponsoredMatches(logs) ==
  SelectSeq(logs, LAMBDA l : l.address = "processor" /\ l.topic = "OrderCreated")

\* parseLog(log).args[0], args[1]
Decoded(log) == [orderId |-> log.args[1], orderAccount |-> log.args[2]]

\* main of part_000 after the receipt: the first matching log, or "no order event"
ParseDirect(r) ==
  /\ At(r, "parse")
  /\ LET rec     == Stage(run[r], "ReceiptParser")
         matches == DirectMatches(rec.receipt[1].logs)
     IN  Set(r, IF matches = <<>>
                THEN Failed(rec, "no order event")
                ELSE [rec EXCEPT !.pc = "status",
                                 !.orderEvent = Some(Decoded(matches[1]))])
  /\ UNCHANGED <<active, chain, txs, arith>>

\* what getOrderStatus(orderId) may answer
StatusesOf(orderId) ==
  IF \E o \in chain.orders : o.id = orderId
  THEN {"ACTIVE", "FULFILLED", "CANCELLED"}
  ELSE {"NONE"}

\* (variant) the status asked for the id the pricing service put in its quote
QuoteOrderId(rec) == rec.feeQuoteResponse[1].fee_quote.orderId

\* const orderId = orderEvent.args[0], the argument of getOrderStatus
StatusQueryId(rec) == rec.orderEvent[1].orderId

\* await orderProcessor.getOrderStatus(orderId), the last statement of both paths
GetOrderStatus(r) ==
  /\ At(r, "status")
  /\ LET rec == [Call(run[r], "getOrderStatus")
                   EXCEPT !.statusQuery = Some(StatusQueryId(run[r]))]
     IN  \/ Set(r, IF rec.script = "direct" THEN Failed(rec, "NetworkError")
                                            ELSE Caught(rec, "NetworkError"))
         \/ \E st \in StatusesOf(rec.statusQuery[1]) :
              Set(r, Finished([rec EXCEPT !.orderStatus = Some(st)]))
  /\ UNCHANGED <<active, chain, txs, arith>>

\* the batch a sponsored script hands to sendTransactions
BatchOf(rec) ==
  IF rec.script = "smart"
  THEN SmartBatch(rec.orderParams[1], rec.feeQuoteResponse[1], rec.totalSpendAmount[1])
  ELSE SponsoredBatch(rec.orderParams[1], rec.feeQuoteResponse[1],
                      rec.totalSpendAmount[1])

\* smart_account.ts sendToken returns after logging the hash; the others wait
AfterSend(s) == IF s = "smart" /\ SENT_STOCKS THEN "done" ELSE "waitUserOp"

\* the call data, the transactions array, smartAccountClient.sendTransactions
SendTransactions(r) ==
  /\ At(r, "send")
  /\ LET rec0  == Stage(run[r], "ExecutionBundler")
         batch == BatchOf(rec0)
         rec   == Call(Stage([rec0 EXCEPT !.batch = Some(batch)],
                             "TransactionDispatcher"), "sendTransactions")
     IN  \/ /\ Set(r, Caught(rec, "SendError"))
            /\ UNCHANGED txs
         \/ /\ txs' = Submitted(r, "userop", "account", batch)
            /\ Set(r, LET sent == [rec EXCEPT !.pc = AfterSend(rec.script),
                                              !.handle = Len(txs')]
                      IN  IF sent.pc = "done" THEN Finished(sent) ELSE sent)
  /\ UNCHANGED <<active, chain, arith>>

\* (variant) a wait whose clock stands still
PollStalls(elapsed) == elapsed

\* the time the wait has lasted after one more polling interval
PollAdvance(elapsed) == elapsed + PollMs

\* one poll of waitForUserOperationReceipt finds nothing yet
WaitPoll(r) ==
  /\ At(r, "waitUserOp")
  /\ run[r].elapsed < ReceiptTimeoutMs
  /\ Set(r, [run[r] EXCEPT !.elapsed = PollAdvance(@)])
  /\ UNCHANGED <<active, chain, txs, arith>>

\* the hash sendTransactions returns for a user operation, and the hash of the
\* chain transaction in which the relayer includes it
UserOperationHash(i) == <<"userOp", i>>
BundleTransactionHash(i) == <<"tx", i>>

\* (variant) the timeout swallowed and the receipt lookup attempted all the same
TimeoutIgnored(rec) ==
  [rec EXCEPT !.pc = "getTxReceipt", !.error = "TimeoutError",
              !.receipt = Some([success |-> FALSE,
                                userOpHash |-> UserOperationHash(rec.handle),
                                receipt |-> [transactionHash |->
                                               BundleTransactionHash(rec.handle)]])]

\* where executeOrderTransaction goes when the wait's timeout fires
OnTimeout(rec) == Caught(rec, "TimeoutError")

\* waitForUserOperationReceipt({ hash, timeout: 60000 }) ends: with the receipt
\* of the included operation, or with the timeout error
WaitForUserOperationReceipt(r) ==
  /\ At(r, "waitUserOp")
  /\ LET rec == Call(run[r], "waitForUserOperationReceipt")
         tx  == txs[rec.handle]
     IN  \/ /\ rec.elapsed < ReceiptTimeoutMs
            /\ tx.status # "pending"
            /\ Set(r, [rec EXCEPT
                 !.pc = "getTxReceipt",
                 !.receipt = Some([success |-> tx.status = "success",
                                   userOpHash |-> UserOperationHash(rec.handle),
                                   receipt |-> [transactionHash |->
                                                  BundleTransactionHash(rec.handle)]])])
         \/ /\ rec.elapsed >= ReceiptTimeoutMs
            /\ Set(r, OnTimeout(rec))
  /\ UNCHANGED <<active, chain, txs, arith>>

\* (variant) the transaction receipt asked for under the user operation's hash
HashOfUserOperation(rec) == rec.receipt[1].userOpHash

\* hash: receipt.receipt.transactionHash
HashToFetch(rec) == rec.receipt[1].receipt.transactionHash

\* publicClient.getTransactionReceipt({ hash: receipt.receipt.transactionHash }):
\* the node knows chain transactions by their hash and nothing else
GetTransactionReceipt(r) ==
  /\ At(r, "getTxReceipt")
  /\ LET rec  == Call(run[r], "getTransactionReceipt")
         hash == HashToFetch(rec)
     IN  \/ Set(r, Caught(rec, "NetworkError"))
         \/ Set(r, IF hash[1] = "tx"
                   THEN [rec EXCEPT !.pc = "find",
                                    !.txReceipt = Some([transactionHash |-> hash,
                                                        status |-> 1,
                                                        logs |-> txs[hash[2]].logs])]
                   ELSE Caught(rec, "TransactionReceiptNotFound"))
  /\ UNCHANGED <<active, chain, txs, arith>>

\* executeOrderTransaction after the receipts: find the log, else only console.log
ParseSponsored(r) ==
  /\ At(r, "find")
  /\ LET rec     == Stage(run[r], "ReceiptParser")
         matches == SponsoredMatches(rec.txReceipt[1].logs)
     IN  Set(r, IF matches = <<>>
                THEN Finished(rec)
                ELSE [rec EXCEPT !.pc = "status",
                                 !.orderEvent = Some(Decoded(matches[1]))])
  /\ UNCHANGED <<active, chain, txs, arith>>

(***************************************************************************)
(* One run of any of the three scripts, with the chain around it.           *)
(***************************************************************************)
\* process.env as the run finds it: complete, or one value missing
Envs == {EnvVars} \cup {EnvVars \ {v} : v \in EnvVars}

\* the version string of the payment token's domain
TokenVersions == {"1", "2"}

Idle == [NewRun("direct", EnvVars, FALSE, BigOf(0)) EXCEPT !.pc = "idle"]

Init ==
  /\ active = {1}
  /\ \E s \in Scripts, e \in Envs :
       run = [r \in RunIds |-> IF r = 1
                               THEN NewRun(s, e, SellOrderDefault, OrderAmountOf(s))
                               ELSE Idle]
  /\ \E v \in TokenVersions : chain = NewChain(v, MaxReduction, MaxDecimals)
  /\ txs = <<>>
  /\ arith = NoArith

Common(r) ==
  \/ CheckConfig(r)
  \/ Setup(r)
  \/ ConfigureOrder(r)
  \/ GetFeeQuote(r)
  \/ GetOrderStatus(r)

Direct(r) ==
  \/ ReadNonce(r)
  \/ ReadBlock(r)
  \/ ReadDomain(r)
  \/ SignPermit(r)
  \/ SubmitOrder(r)
  \/ WaitDirect(r)
  \/ ParseDirect(r)

Sponsored(r) ==
  \/ SendTransactions(r)
  \/ WaitPoll(r)
  \/ WaitForUserOperationReceipt(r)
  \/ GetTransactionReceipt(r)
  \/ ParseSponsored(r)

Environment ==
  \/ \E i \in 1..Len(txs) : ExecuteTx(i)
  \/ \E i \in 1..Len(txs) : Replay(i)
  \/ Tick
  \/ AdvanceNonce

Next ==
  \/ \E r \in RunIds : Common(r) \/ Direct(r) \/ Sponsored(r)
  \/ Environment

Spec == Init /\ [][Next]_vars

(***************************************************************************)
(* The amount arithmetic taken alone: configureOrder's Number(orderAmount)  *)
(* and main's total, for order amounts and fees on both sides of 2^53.      *)
(***************************************************************************)
ArithHighs == {0, 2^26 - 1, 2^26, 2^26 + 1, 2^27, 2^28 + 5}
ArithLows == (0..MaxLow) \cup {LimbBase - 1 - k : k \in 0..MaxLow}
ArithAmounts == {Big(h, l) : h \in ArithHighs, l \in ArithLows} \cup {BigOf(1000000)}
ArithFees == {BigOf(0), BigOf(2500), Big(2^26, 1), Big(2^26, LimbBase - 1)}

InitArith ==
  /\ active = {}
  /\ run = [r \in RunIds |-> Idle]
  /\ chain = NewChain("1", MaxReduction, MaxDecimals)
  /\ txs = <<>>
  /\ \E a \in ArithAmounts, f \in ArithFees :
       arith = [phase |-> "input", orderAmount |-> a, fee |-> f]

\* configureOrder: paymentTokenQuantity: Number(orderAmount)
ArithQuantity ==
  /\ arith.phase = "input"
  /\ arith' = [phase |-> "quantity", orderAmount |-> arith.orderAmount,
               fee |-> arith.fee,
               paymentTokenQuantity |-> PaymentTokenQuantity(arith.orderAmount)]
  /\ UNCHANGED <<active, run, chain, txs>>

\* main: totalSpendAmount = BigInt(orderParams.paymentTokenQuantity) + fees
ArithTotal ==
  /\ arith.phase = "quantity"
  /\ arith' = [phase |-> "done", orderAmount |-> arith.orderAmount,
               fee |-> arith.fee,
               paymentTokenQuantity |-> arith.paymentTokenQuantity,
               totalSpendAmount |->
                  TotalSpendAmount(arith.paymentTokenQuantity, arith.fee)]
  /\ UNCHANGED <<active, run, chain, txs>>

NextArith == ArithQuantity \/ ArithTotal

SpecArith == InitArith /\ [][NextArith]_vars

(***************************************************************************)
(* configureOrder with its sellOrder switch on either side: the order       *)
(* amount, the processor's decimal reduction and the asset's decimals are   *)
(* inputs; the run goes as far as the fee quote.                            *)
(***************************************************************************)
SellAmounts ==
  {BigOf(n) : n \in {0, 1, 5, 10, 50, 100, 150, 1000, 1500, 10000, 1000000}}
    \cup {Big(1, 0), Big(3, 72), Big(2^26, 96), Big(2^26, 9)}

InitSell ==
  /\ active = {1}
  /\ \E s \in Scripts, sell \in BOOLEAN, a \in SellAmounts :
       run = [r \in RunIds |-> IF r = 1 THEN NewRun(s, EnvVars, sell, a) ELSE Idle]
  /\ \E red \in 0..MaxReduction :
       \E dec \in red..MaxDecimals : chain = NewChain("1", red, dec)
  /\ txs = <<>>
  /\ arith = NoArith

NextSell ==
  \E r \in RunIds :
    \/ CheckConfig(r)
    \/ Setup(r)
    \/ ConfigureOrder(r)
    \/ ValidateSellOrderPrecision(r)
    \/ ValidateThrow(r)
    \/ GetFeeQuote(r)

SpecSell == InitSell /\ [][NextSell]_vars

(***************************************************************************)
(* Two runs of the direct script with the same signer, side by side.        *)
(***************************************************************************)
\* a run of the direct script that holds its intent, its quote and its total:
\* main() of part_000 just before configurePermit
HoldingQuote(fee, now) ==
  LET r0 == Call(NewRun("direct", EnvVars, SellOrderDefault, OrderAmountOf("direct")),
                 "getNetwork")
      r1 == [Stage(r0, "OrderIntentBuilder")
               EXCEPT !.orderParams = Some(OrderParams(r0, now))]
      r2 == Call(Stage(r1, "FeeQuoteClient"), "feeQuote")
  IN  [r2 EXCEPT
         !.pc = AfterQuote("direct"),
         !.feeQuoteResponse = Some(QuoteResponse(r2, fee, now)),
         !.fees = Some(fee),
         !.totalSpendAmount =
            Some(TotalSpendAmount(r2.orderParams[1].paymentTokenQuantity, fee))]

InitRace ==
  /\ active = {1, 2}
  /\ run = [r \in RunIds |-> HoldingQuote(BigOf(2500), StartTime)]
  /\ \E v \in TokenVersions : chain = NewChain(v, MaxReduction, MaxDecimals)
  /\ txs = <<>>
  /\ arith = NoArith

\* each run is followed from configurePermit to the receipt of its transaction
NextRace ==
  \/ \E r \in RunIds :
       \/ ReadNonce(r)
       \/ ReadBlock(r)
       \/ ReadDomain(r)
       \/ SignPermit(r)
       \/ SubmitOrder(r)
       \/ WaitDirect(r)
  \/ \E i \in 1..Len(txs) : ExecuteTx(i)
  \/ Tick
  \/ AdvanceNonce

SpecRace == InitRace /\ [][NextRace]_vars

(***************************************************************************)
(* Properties.                                                              *)
(***************************************************************************)
TxsOf(r) == {i \in 1..Len(txs) : txs[i].by = r}

\* call c of run r's batch has taken effect on the chain
Applied(r, c) ==
  \E i \in TxsOf(r) :
    /\ txs[i].status = "success"
    /\ \E k \in 1..Len(txs[i].calls) : txs[i].calls[k] = c

OrderCreatedBy(r) == \E o \in chain.orders : o.id \in TxsOf(r)

Allowance(r) == chain.allowance[<<"paymentToken", OwnerOf(run[r].script), "processor">>]

IsPrefix(s, t) == Len(s) <= Len(t) /\ \A k \in 1..Len(s) : s[k] = t[k]

Ran(r, stage) == \E k \in 1..Len(run[r].stages) : run[r].stages[k] = stage

Called(r, name) == \E k \in 1..Len(run[r].calls) : run[r].calls[k] = name

\* C1: a submitted batch takes effect as a whole or not at all: its first call
\* has taken effect exactly when its second has; for an order batch the
\* authorization has taken effect exactly when the order exists, and the
\* processor holds an allowance only if the order was created.
C1_BatchAtomic ==
  \A r \in active :
    run[r].batch # None =>
      LET b == run[r].batch[1]
      IN  /\ Applied(r, b[1]) <=> Applied(r, b[2])
          /\ b[2].fn = "createOrder" =>
               /\ Applied(r, b[1]) <=> OrderCreatedBy(r)
               /\ Allowance(r) # BigOf(0) => OrderCreatedBy(r)

\* C1 witness: a direct transaction reverted although its permit was good
\* (counter, deadline and domain version all matching): createOrder failed and
\* took the permit's effect with it.
C1_RevertedWithGoodPermit ==
  \E r \in active :
    /\ run[r].script = "direct"
    /\ run[r].handle # 0
    /\ txs[run[r].handle].status = "reverted"
    /\ run[r].permitMessage[1].nonce = chain.nonce
    /\ chain.time <= run[r].permitMessage[1].deadline
    /\ run[r].permitDomain[1].version = chain.tokenVersion
    /\ chain.permits = <<>>

\* the spend authorization for the payment asset
IsAuthorization(c) ==
  \/ c.fn = "selfPermit" /\ c.to = "processor" /\ c.args.token = "paymentToken"
  \/ c.fn = "approve" /\ c.to = "paymentToken" /\ c.args.spender = "processor"

\* C2 as claimed: every batch a script submits is [authorization, createOrder].
C2_BatchIsAuthorizationThenOrder ==
  \A r \in active :
    run[r].batch # None =>
      LET b == run[r].batch[1]
      IN  /\ Len(b) = 2
          /\ IsAuthorization(b[1])
          /\ b[2].fn = "createOrder" /\ b[2].to = "processor"

SixStages ==
  <<"OrderIntentBuilder", "FeeQuoteClient", "PermitAuthorizer",
    "ExecutionBundler", "TransactionDispatcher", "ReceiptParser">>

C4_TotalIsAmountPlusFee ==
  arith.phase = "done" =>
    arith.totalSpendAmount = BigAdd(arith.orderAmount, arith.fee)

\* what a run's intent and quote add up to
QuantityPlusFee(r) ==
  BigAdd(run[r].orderParams[1].paymentTokenQuantity,
         run[r].feeQuoteResponse[1].fee_quote.fee)

\* C5: the authorization of an order batch carries quantity + fee: the signed
\* permit message's value, the value argument of selfPermit and the amount of
\* the sponsored approve; 1 002 500 for quantity 1 000 000 and fee 2 500.
C5_AuthorizationValue ==
  \A r \in active :
    LET me == run[r]
    IN  /\ me.permitMessage # None => me.permitMessage[1].value = QuantityPlusFee(r)
        /\ me.permitSignature # None =>
             me.permitSignature[1].r.message.value = QuantityPlusFee(r)
        /\ me.selfPermitData # None =>
             me.selfPermitData[1].args.value = QuantityPlusFee(r)
        /\ (me.batch # None /\ me.batch[1][2].fn = "createOrder") =>
             /\ me.batch[1][1].fn = "selfPermit" =>
                  me.batch[1][1].args.value = QuantityPlusFee(r)
             /\ me.batch[1][1].fn = "approve" =>
                  me.batch[1][1].args.amount = QuantityPlusFee(r)
             /\ (me.orderAmount = BigOf(1000000) /\ me.fees[1] = BigOf(2500)) =>
                  \/ me.batch[1][1].fn = "selfPermit"
                       /\ me.batch[1][1].args.value = BigOf(1002500)
                  \/ me.batch[1][1].fn = "approve"
                       /\ me.batch[1][1].args.amount = BigOf(1002500)

\* C5 witness: a direct batch for quantity 1 000 000 and fee 2 500 is submitted.
C5_DirectBatchOf1002500 ==
  \E r \in active :
    /\ run[r].script = "direct"
    /\ run[r].batch # None
    /\ run[r].fees[1] = BigOf(2500)
    /\ run[r].batch[1][1].args.value = BigOf(1002500)

\* the divisor of the precision rule, as the claim and as the code have it
NotDivisibleBy(r, exponent) ==
  NumberMod(ToNumber(run[r].orderAmount), 10 ^ exponent) # 0

C7_NonceConsumedOnce ==
  /\ chain.nonce = Len(chain.permits)
  /\ \A k \in 1..Len(chain.permits) :
       /\ chain.permits[k].nonce = chain.permits[k].counter
       /\ chain.permits[k].counter = k - 1
  /\ \A j, k \in 1..Len(chain.permits) :
       j # k => chain.permits[j].nonce # chain.permits[k].nonce
  /\ \A i \in 1..Len(txs) : txs[i].sender = "replayer" => txs[i].status # "success"
  /\ \A r \in active :
       (run[r].script = "direct" /\ run[r].handle # 0
          /\ txs[run[r].handle].status = "success") =>
         \E k \in 1..Len(chain.permits) :
           chain.permits[k].nonce = run[r].permitMessage[1].nonce

\* C7 witness: a permit that was applied has been broadcast again and rejected.
C7_ReplayRejected ==
  \E i \in 1..Len(txs) : txs[i].sender = "replayer" /\ txs[i].status = "reverted"

\* C8: two direct runs of one signer that read the same counter value do not
\* both settle; the one whose transaction reverts leaves no order and no
\* effect of its permit.
C8_AtMostOneSettles ==
  /\ (run[1].nonceReadAt # None /\ run[1].nonceReadAt = run[2].nonceReadAt) =>
       ~(OrderCreatedBy(1) /\ OrderCreatedBy(2))
  /\ \A r \in active :
       (run[r].handle # 0 /\ txs[run[r].handle].status = "reverted") =>
         /\ ~OrderCreatedBy(r)
         /\ ~Applied(r, run[r].batch[1][1])

\* C8 witness: both runs read the same counter value and both submitted; one
\* settled and the other's transaction reverted.
C8_WinnerAndLoser ==
  \E w, l \in active :
    /\ w # l
    /\ run[w].nonceReadAt # None
    /\ run[w].nonceReadAt = run[l].nonceReadAt
    /\ run[w].handle # 0 /\ run[l].handle # 0
    /\ OrderCreatedBy(w)
    /\ txs[run[l].handle].status = "reverted"

\* C9: a sponsored wait that has lasted 60 000 ms without a receipt ends with
\* the timeout error; after it the transaction receipt is not fetched, no log
\* is parsed and no order status is queried; a receipt is only ever obtained
\* within the 60 000 ms.
C9_TimeoutEndsTheRun ==
  \A r \in active :
    /\ run[r].error = "TimeoutError" =>
         /\ run[r].elapsed >= ReceiptTimeoutMs
         /\ run[r].pc = "done"
         /\ run[r].receipt = None
         /\ run[r].txReceipt = None
         /\ run[r].orderEvent = None
         /\ ~Called(r, "getTransactionReceipt")
         /\ ~Called(r, "getOrderStatus")
         /\ ~Ran(r, "ReceiptParser")
    /\ (Called(r, "waitForUserOperationReceipt")
          /\ run[r].elapsed >= ReceiptTimeoutMs) =>
         run[r].error = "TimeoutError"
    /\ (run[r].script # "direct" /\ run[r].receipt # None) =>
         run[r].elapsed < ReceiptTimeoutMs

\* C9 witness: a sponsored run has timed out waiting for its receipt.
C9_TimedOut ==
  \E r \in active : run[r].script = "sponsored" /\ run[r].error = "TimeoutError"

\* the logs the receipt parser of run r looks at
LogsSeen(r) ==
  IF run[r].script = "direct" THEN run[r].receipt[1].logs
                              ELSE run[r].txReceipt[1].logs

NoProcessorOrderLog(logs) ==
  ~ \E k \in 1..Len(logs) :
      logs[k].address = "processor" /\ logs[k].topic = "OrderCreated"

\* C10 as claimed: a receipt without an order-creation log of the processor
\* ends the run with the missing-event error and a failure exit.
C10_MissingEventRaises ==
  \A r \in active :
    (Ran(r, "ReceiptParser") /\ NoProcessorOrderLog(LogsSeen(r))) =>
      /\ run[r].pc = "failed"
      /\ run[r].error = "no order event"
      /\ run[r].exitCode = 1

\* C11 as claimed: the order a run reports is decoded from the first log of
\* its receipt that the order processor emitted under the OrderCreated topic;
\* a log of another address is never the one decoded.
C11_DecodesFirstProcessorLog ==
  \A r \in active :
    run[r].orderEvent # None =>
      LET matches == SponsoredMatches(LogsSeen(r))
      IN  /\ matches # <<>>
          /\ run[r].orderEvent[1] = Decoded(matches[1])

\* C12 as claimed: a run in which an error was raised has stopped with that
\* error as a failure: no later stage ran and the process did not end as a
\* success.
C12_ErrorsFailTheRun ==
  \A r \in active :
    run[r].error # "none" =>
      /\ run[r].pc = "failed"
      /\ run[r].exitCode = 1
      /\ run[r].orderStatus = None

(***************************************************************************)
(* One direct and one sponsored run for the same intent and the same quote, *)
(* side by side, each followed from its quote to its end.                   *)
(***************************************************************************)
\* a run of part_001 that holds its intent, its quote and its total: main()
\* of part_001 just before it encodes the calls of its batch
SponsoredHoldingQuote(fee, now) ==
  LET r0 == Call(Call(NewRun("sponsored", EnvVars, SellOrderDefault,
                             OrderAmountOf("sponsored")),
                      "getNetwork"), "setupSmartAccount")
      r1 == [Stage(r0, "OrderIntentBuilder")
               EXCEPT !.orderParams = Some(OrderParams(r0, now))]
      r2 == Call(Stage(r1, "FeeQuoteClient"), "feeQuote")
  IN  [r2 EXCEPT
         !.pc = AfterQuote("sponsored"),
         !.feeQuoteResponse = Some(QuoteResponse(r2, fee, now)),
         !.fees = Some(fee),
         !.totalSpendAmount =
            Some(TotalSpendAmount(r2.orderParams[1].paymentTokenQuantity, fee))]

InitPair ==
  /\ active = {1, 2}
  /\ run = [r \in RunIds |-> IF r = 1 THEN HoldingQuote(BigOf(2500), StartTime)
                                      ELSE SponsoredHoldingQuote(BigOf(2500), StartTime)]
  /\ chain = NewChain("1", MaxReduction, MaxDecimals)
  /\ txs = <<>>
  /\ arith = NoArith

NextPair ==
  \/ \E r \in RunIds : Direct(r) \/ Sponsored(r) \/ GetOrderStatus(r)
  \/ \E i \in 1..Len(txs) : ExecuteTx(i)
  \/ Tick

SpecPair == InitPair /\ [][NextPair]_vars

\* what the chain did with run r's submission: its status and the events of
\* the token and of the processor, in receipt order
ChainOutcome(r) ==
  LET tx == txs[run[r].handle]
      ev == SelectSeq(tx.logs, LAMBDA l : l.address \in {"paymentToken", "processor"})
  IN  [status |-> tx.status,
       events |-> [k \in 1..Len(ev) |-> <<ev[k].address, ev[k].topic>>]]

\* run r went from its submission to its end with no failure of the network,
\* of the relayer or of the wait
OnlyChainDecides(r) ==
  /\ run[r].pc \in {"done", "failed"}
  /\ run[r].handle # 0
  /\ txs[run[r].handle].status # "pending"
  /\ run[r].error \in {"none", "ChainRevertError", "no order event"}

\* C13 as claimed: a direct and a sponsored run with the same intent, the same
\* quote and the same execution outcome on chain end alike: both succeed or
\* both fail, and both or neither report an order and its status.
C13_StrategiesAgree ==
  (OnlyChainDecides(1) /\ OnlyChainDecides(2) /\ ChainOutcome(1) = ChainOutcome(2)) =>
    /\ run[1].exitCode = run[2].exitCode
    /\ (run[1].orderEvent = None) <=> (run[2].orderEvent = None)
    /\ (run[1].orderStatus = None) <=> (run[2].orderStatus = None)

\* the submissions whose createOrder call carries the quote run r obtained
SubmissionsWithQuoteOf(r) ==
  {i \in 1..Len(txs) :
     \E k \in 1..Len(txs[i].calls) :
       /\ txs[i].calls[k].fn = "createOrder"
       /\ txs[i].calls[k].args.feeQuote = run[r].feeQuoteResponse[1].fee_quote}

\* C14 as claimed: a quote a run obtained is never in two submissions, and once
\* the run has submitted its batch the quote is in exactly one.
C14_QuoteConsumedOnce ==
  \A r \in active :
    run[r].feeQuoteResponse # None =>
      /\ Cardinality(SubmissionsWithQuoteOf(r)) <= 1
      /\ run[r].handle # 0 => Cardinality(SubmissionsWithQuoteOf(r)) = 1

(***************************************************************************)
(* The waits.  waitForUserOperationReceipt polls on a timer of its own, so  *)
(* a run that sits in it keeps polling until it returns or throws; tx.wait() *)
(* returns as soon as it can; nothing obliges the chain to include a        *)
(* transaction.                                                             *)
(***************************************************************************)
SpecWait ==
  /\ Init
  /\ [][Next]_vars
  /\ \A r \in RunIds : WF_vars(WaitPoll(r) \/ WaitForUserOperationReceipt(r))
  /\ \A r \in RunIds : WF_vars(WaitDirect(r))

\* a direct run whose transaction has not been included is still in tx.wait():
\* it has no receipt, no error and no exit code
DirectWaitUnbounded ==
  \A r \in active :
    (run[r].script = "direct" /\ run[r].handle # 0
       /\ txs[run[r].handle].status = "pending") =>
      /\ run[r].pc = "wait"
      /\ run[r].receipt = None
      /\ run[r].error = "none"
      /\ run[r].exitCode = -1

\* C15: while its transaction is not included a direct run stays in its wait,
\* with neither a receipt nor an error; a sponsored run that is waiting for
\* its user-operation receipt always leaves the wait, with the receipt or with
\* the timeout error.
C15_OnlySponsoredWaitEnds ==
  /\ []DirectWaitUnbounded
  /\ \A r \in RunIds :
       (r \in active /\ run[r].pc = "waitUserOp")
         ~> (run[r].pc # "waitUserOp"
               /\ (run[r].receipt # None \/ run[r].error = "TimeoutError"))

\* C15 witness: a direct run is still waiting for a transaction that was never
\* included, after the last block of the chain's clock.
C15_DirectStillWaiting ==
  \E r \in active :
    /\ run[r].script = "direct"
    /\ run[r].pc = "wait"
    /\ txs[run[r].handle].status = "pending"
    /\ chain.time + BlockSeconds > MaxTime

\* C16: on the sponsored path the transaction receipt is fetched only once the
\* relayer's receipt is held, under the transaction hash that receipt names;
\* it is the receipt of the transaction that included the operation, and the
\* order reported is decoded from its logs.
C16_LogsOfTheChainTransaction ==
  \A r \in active :
    run[r].script # "direct" =>
      /\ Called(r, "getTransactionReceipt") =>
           /\ run[r].receipt # None
           /\ Called(r, "waitForUserOperationReceipt")
      /\ run[r].error # "TransactionReceiptNotFound"
      /\ run[r].txReceipt # None =>
           /\ run[r].txReceipt[1].transactionHash =
                run[r].receipt[1].receipt.transactionHash
           /\ run[r].txReceipt[1].transactionHash = BundleTransactionHash(run[r].handle)
           /\ run[r].txReceipt[1].logs = txs[run[r].handle].logs
      /\ Ran(r, "ReceiptParser") => run[r].txReceipt # None
      /\ run[r].orderEvent # None =>
           run[r].orderEvent[1] =
             Decoded(SponsoredMatches(run[r].txReceipt[1].logs)[1])

\* C16 witness: a sponsored run has reported the order and the status it found
\* through the transaction receipt.
C16_SponsoredOrderReported ==
  \E r \in active :
    /\ run[r].script = "sponsored"
    /\ run[r].txReceipt # None
    /\ run[r].orderEvent # None
    /\ run[r].orderStatus # None

\* C17: a run sends at most one fee-quote request and at most one batch; a
\* quote request that fails ends the run there: it is not sent again, no
\* permit is signed and no batch is submitted.
C17_OneQuoteOneSubmission ==
  \A r \in active :
    /\ Count(run[r].calls, "feeQuote") <= 1
    /\ Count(run[r].calls, "multicall") + Count(run[r].calls, "sendTransactions") <= 1
    /\ Cardinality(TxsOf(r)) <= 1
    /\ run[r].error \in {"QuoteServiceError", "MalformedQuote"} =>
         /\ run[r].pc = "failed"
         /\ run[r].calls[Len(run[r].calls)] = "feeQuote"
         /\ run[r].feeQuoteResponse = None
         /\ run[r].permitSignature = None
         /\ run[r].batch = None
         /\ TxsOf(r) = {}
         /\ ~Ran(r, "PermitAuthorizer")
         /\ ~Ran(r, "TransactionDispatcher")

\* C17 witness: a quote request has failed.
C17_QuoteFailed ==
  \E r \in active : run[r].error \in {"QuoteServiceError", "MalformedQuote"}

\* a mod m on the integer itself, with no conversion
BigMod(a, m) == (MulMod(a.hi % m, LimbBase % m, m) + (a.lo % m)) % m

\* C18 as claimed: once the processor's reduction is read, a sell quantity with
\* quantity mod 10^allowedReduction # 0 fails with the precision error naming
\* assetDecimals - allowedReduction, a quantity with remainder 0 passes without
\* error, and nothing on chain has changed either way.
C18_ChecksTheQuantity ==
  \A r \in active :
    (run[r].sellOrder /\ Called(r, "orderDecimalReduction")) =>
      LET remainder == BigMod(run[r].orderAmount,
                              10 ^ run[r].allowedDecimalReduction[1])
      IN  /\ run[r].allowedDecimalReduction[1] = chain.orderDecimalReduction
          /\ remainder # 0 =>
               /\ run[r].pc \in {"validateDecimals", "failed"}
               /\ run[r].pc = "failed" =>
                    /\ run[r].error = "PrecisionError"
                    /\ run[r].errorArg =
                         chain.assetDecimals - chain.orderDecimalReduction
          /\ remainder = 0 =>
               run[r].orderParams # None /\ run[r].error # "PrecisionError"
          /\ txs = <<>> /\ chain.orders = {} /\ chain.permits = <<>>

\* C19 as claimed: whenever a run signs its permit, the nonce in the message
\* it signs is the value the owner's counter has on chain at that moment.
C19_NonceCurrentAtSigning ==
  [][\A r \in RunIds :
       SignPermit(r) => run'[r].permitMessage[1].nonce = chain'.nonce]_vars

\* C20 as claimed: a run that has waited for its batch, whose batch reverted on
\* chain and which met no other failure reports no order and queries no
\* status, does not parse the logs of the reverted execution on the sponsored
\* path, and ends as a failure.
C20_RevertEndsInError ==
  \A r \in active :
    (/\ run[r].handle # 0
     /\ txs[run[r].handle].status = "reverted"
     /\ Called(r, "wait") \/ run[r].receipt # None
     /\ run[r].error \in {"none", "ChainRevertError"}) =>
      /\ run[r].orderEvent = None
      /\ ~Called(r, "getOrderStatus")
      /\ run[r].script # "direct" => ~Ran(r, "ReceiptParser")
      /\ run[r].pc \in {"done", "failed"} =>
           run[r].pc = "failed" /\ run[r].error # "none" /\ run[r].exitCode = 1

\* C21: the selfPermit call carries the signed permit: its owner, value and
\* deadline are the message's, its token is the domain's verifying contract,
\* the message's spender is the processor the call is addressed to, and its
\* v, r, s are the split of the signer's signature over that domain and
\* message; the call is the first entry of the batch that is submitted.
C21_SelfPermitMatchesSignedPermit ==
  \A r \in active :
    run[r].selfPermitData # None =>
      LET c == run[r].selfPermitData[1]
          m == run[r].permitMessage[1]
          d == run[r].permitDomain[1]
          g == SplitSignature(SignTypedData(OwnerOf(run[r].script), d, m))
      IN  /\ c.fn = "selfPermit"
          /\ c.args.owner = m.owner
          /\ c.args.value = m.value
          /\ c.args.deadline = m.deadline
          /\ c.args.token = d.verifyingContract
          /\ m.spender = c.to
          /\ m.owner = OwnerOf(run[r].script)
          /\ c.args.v = g.v /\ c.args.r = g.r /\ c.args.s = g.s
          /\ run[r].permitSignature[1] = g
          /\ run[r].batch # None => run[r].batch[1][1] = c
          /\ \A i \in TxsOf(r) : txs[i].calls[1] = c /\ txs[i].sender = m.owner

\* C21 witness: a direct run's batch went through on chain, its permit
\* accepted by the verifier.
C21_PermitAcceptedOnChain ==
  \E r \in active :
    /\ run[r].script = "direct"
    /\ run[r].handle # 0
    /\ txs[run[r].handle].status = "success"
    /\ Applied(r, run[r].selfPermitData[1])

\* the createOrder calls among the submissions of run r
CreateOrderCallsOf(r) ==
  {c \in UNION {{txs[i].calls[k] : k \in 1..Len(txs[i].calls)} : i \in TxsOf(r)} :
     c.fn = "createOrder"}

\* C22: the order in a submitted createOrder call has the ten fields of the
\* order data the pricing service was sent and signed, which are those
\* configureOrder returned; the quote's five fields and the signature in the
\* call are those of the service's response.
C22_CallCarriesIntentAndQuote ==
  \A r \in active :
    /\ run[r].feeQuoteResponse # None =>
         run[r].feeQuoteResponse[1].fee_quote_signature.order = run[r].orderParams[1]
    /\ \A c \in CreateOrderCallsOf(r) :
         /\ c.args.order = run[r].orderParams[1]
         /\ c.args.order = run[r].feeQuoteResponse[1].fee_quote_signature.order
         /\ DOMAIN c.args.order =
              {"requestTimestamp", "recipient", "assetToken", "paymentToken", "sell",
               "orderType", "assetTokenQuantity", "paymentTokenQuantity", "price", "tif"}
         /\ c.args.feeQuote = run[r].feeQuoteResponse[1].fee_quote
         /\ DOMAIN c.args.feeQuote =
              {"orderId", "requester", "fee", "timestamp", "deadline"}
         /\ c.args.signature = run[r].feeQuoteResponse[1].fee_quote_signature

\* C22 witness: a sponsored run's createOrder call was accepted on chain, the
\* service's signature matching the order and the quote in the call.
C22_SponsoredOrderAccepted ==
  \E r \in active :
    /\ run[r].script = "sponsored"
    /\ CreateOrderCallsOf(r) # {}
    /\ OrderCreatedBy(r)

\* C23: the domain's version is the token's version() when the probe's call
\* succeeds and "1" when it fails; a failed probe raises nothing: the domain
\* and the message are built all the same.
C23_VersionProbeNeverAborts ==
  \A r \in active :
    /\ Called(r, "version") =>
         /\ run[r].permitDomain # None
         /\ run[r].permitDomain[1].version = chain.tokenVersion
    /\ Called(r, "version:failed") =>
         /\ run[r].permitDomain # None
         /\ run[r].permitDomain[1].version = "1"
         /\ run[r].permitMessage # None
         /\ run[r].calls[Len(run[r].calls)] # "version:failed"
    /\ run[r].permitDomain # None =>
         Called(r, "version") \/ Called(r, "version:failed")

\* C23 witness: a permit has been signed although the probe's call failed.
C23_SignedWithDefaultVersion ==
  \E r \in active :
    /\ Called(r, "version:failed")
    /\ run[r].permitSignature # None
    /\ run[r].permitSignature[1].r.domain.version = "1"

\* C24: a dispatch that the sender did not refuse has put the run's batch on
\* the chain, whatever the block time is against the quote's or the permit's
\* deadline: no stage holds a batch back for an expired deadline.
C24_DispatchIgnoresDeadlines ==
  \A r \in active :
    (/\ Called(r, "multicall") \/ Called(r, "sendTransactions")
     /\ run[r].error # "SendError")
    => /\ run[r].handle \in 1..Len(txs)
       /\ txs[run[r].handle].by = r
       /\ txs[run[r].handle].calls = run[r].batch[1]
       /\ txs[run[r].handle].sentAt \in StartTime..MaxTime

\* C24 witness: a batch sent after its quote ran out, and refused by the chain.
C24_ExpiredQuoteSubmitted ==
  \E r \in active :
    /\ run[r].handle \in 1..Len(txs)
    /\ run[r].feeQuoteResponse # None
    /\ txs[run[r].handle].sentAt > run[r].feeQuoteResponse[1].fee_quote.deadline
    /\ txs[run[r].handle].status = "reverted"

\* C25: the permit's deadline is the timestamp of the block read while the
\* permit is built plus 300 seconds; with no block, or a timestamp of 0, the
\* run fails with "no block time" and neither message nor signature exists.
C25_DeadlineIsBlockTimePlus300 ==
  \A r \in active :
    /\ run[r].deadline # None =>
         /\ run[r].blockTime # None
         /\ run[r].blockTime[1] \in StartTime..chain.time
         /\ run[r].deadline[1] = run[r].blockTime[1] + 300
    /\ run[r].permitMessage # None =>
         run[r].permitMessage[1].deadline = run[r].deadline[1]
    /\ (Called(r, "getBlock") /\ run[r].blockTime \in {None, Some(0)}) =>
         /\ run[r].pc = "failed"
         /\ run[r].error = "no block time"
         /\ run[r].deadline = None
         /\ run[r].permitMessage = None
         /\ run[r].permitSignature = None
         /\ TxsOf(r) = {}

\* C25 witness: a block whose timestamp reads 0 has ended the run unsigned.
C25_ZeroTimestampFailed ==
  \E r \in active :
    /\ Called(r, "getBlock")
    /\ run[r].blockTime = Some(0)
    /\ run[r].error = "no block time"
    /\ run[r].permitSignature = None

\* C26: in every run of every script the intent configureOrder builds is a buy
\* market order (sell false, orderType 0, price 0, assetTokenQuantity 0, tif 1);
\* the sell-side precision check is never entered and no run ends with its error.
C26_AlwaysBuyMarketOrder ==
  \A r \in active :
    /\ ~run[r].sellOrder
    /\ run[r].pc \notin {"validateSell", "validateDecimals"}
    /\ ~Called(r, "orderDecimalReduction")
    /\ ~Called(r, "decimals")
    /\ run[r].error # "PrecisionError"
    /\ run[r].orderParams # None =>
         LET o == run[r].orderParams[1]
         IN  /\ o.sell = FALSE
             /\ o.orderType = 0
             /\ o.price = 0
             /\ o.assetTokenQuantity = 0
             /\ o.tif = 1
    /\ Ran(r, "FeeQuoteClient") => run[r].orderParams # None

\* C26 witness: a run has gone from configureOrder to the quote request with
\* its buy intent, the precision check untouched.
C26_BuyIntentQuoted ==
  \E r \in active :
    /\ run[r].orderParams # None
    /\ run[r].orderParams[1].sell = FALSE
    /\ Called(r, "feeQuote")
    /\ run[r].allowedDecimalReduction = None

\* the logs of the receipt run r read that carry the order-creation topic
CreationLogsSeen(r) ==
  {LogsSeen(r)[k] : k \in {j \in 1..Len(LogsSeen(r)) : LogsSeen(r)[j].topic = "OrderCreated"}}

\* C27: getOrderStatus is called only once an OrderCreated log of the run's own
\* receipt has been decoded, and with the order id decoded from that log; a run
\* that found no such log never asks for a status.
C27_StatusOnlyForDecodedOrder ==
  \A r \in active :
    /\ (run[r].pc = "status" \/ Called(r, "getOrderStatus")) =>
         /\ run[r].orderEvent # None
         /\ Ran(r, "ReceiptParser")
         /\ \E log \in CreationLogsSeen(r) : Decoded(log) = run[r].orderEvent[1]
    /\ Called(r, "getOrderStatus") =>
         run[r].statusQuery = Some(run[r].orderEvent[1].orderId)
    /\ run[r].orderEvent = None =>
         /\ ~Called(r, "getOrderStatus")
         /\ run[r].statusQuery = None
         /\ run[r].orderStatus = None

\* C27 witness: a status has been obtained for the id decoded from the log.
C27_StatusOfDecodedOrder ==
  \E r \in active :
    /\ Called(r, "getOrderStatus")
    /\ run[r].orderStatus # None
    /\ run[r].statusQuery = Some(run[r].orderEvent[1].orderId)

\* C28: a run that lacks a configuration value its script uses (signing key,
\* node endpoint, payment token, pricing-service key, and where used the asset
\* token and the relayer key) fails in main's first step with an error, having
\* made no call to the node, the pricing service, the relayer or the chain.
C28_MissingConfigFailsBeforeAnyCall ==
  \A r \in active :
    LET s      == run[r].script
        key    == IF s = "direct" THEN "PRIVATE_KEY_EOA" ELSE "PRIVATE_KEY"
        asset  == IF s = "smart" THEN {} ELSE {"ASSETTOKEN"}
        relay  == IF s = "direct" THEN {} ELSE {"PIMLICO_API_KEY"}
        needed == {key, "RPC_URL", "PAYMENTTOKEN", "DINARI_API_KEY"} \cup asset \cup relay
    IN  /\ (needed \ run[r].env # {} /\ run[r].pc # "start") =>
             /\ run[r].pc = "failed"
             /\ run[r].error = "config"
             /\ run[r].exitCode = 1
             /\ run[r].calls = <<>>
             /\ run[r].stages = <<>>
             /\ TxsOf(r) = {}
        /\ run[r].error = "config" => needed \ run[r].env # {}

\* C28 witness: the sponsored script, started without the relayer key, has
\* failed without a single call.
C28_SponsoredWithoutRelayerKey ==
  \E r \in active :
    /\ run[r].script = "sponsored"
    /\ "PIMLICO_API_KEY" \notin run[r].env
    /\ run[r].pc = "failed"
    /\ run[r].error = "config"
    /\ run[r].calls = <<>>

====
